---- MODULE Spec2Model ----
(***************************************************************************)
(* Data-alignment and derived-metrics pipeline of the welding/production   *)
(* dashboards 250610_0526_0528_v01 .. v09.                                 *)
(*                                                                         *)
(* Every script is one synchronous pass: read the selected sheets, join    *)
(* them into one table, derive columns and compute the statistics.  The    *)
(* model follows the passes statement group by statement group (pc).       *)
(*                                                                         *)
(* Numbers.  A float is an exact rational <<n, d>> with d > 0 in lowest    *)
(* terms; NaN is <<0, 0>>, +inf is <<1, 0>> and -inf is <<-1, 0>>.  A      *)
(* correlation coefficient r is kept exactly as <<sign, n, d>> with        *)
(* r^2 = n/d in lowest terms (NaN is <<0, 0, 0>>).                         *)
(***************************************************************************)
EXTENDS Integers, Sequences, FiniteSets, TLC

VARIABLES
    version,          \* which revision of the script runs
    book,             \* which family of workbooks is uploaded
    pc,               \* position of the script
    selected_sheets,  \* st.multiselect result: sequence of distinct sheet names
    xls,              \* raw rows of each selected sheet as read_excel returns them
    shape,            \* number of columns of each sheet read (len(df.columns))
    dfs,              \* per-sheet frames appended by the loading loop
    df_all,           \* the combined table (combined_df of v01)
    categories,       \* categories of the ordered categorical Timestamp (v04, v05)
    unified_time,     \* v01: the unified timeline
    window,           \* rolling window slider value (0 = not read yet)
    global_corr,      \* global correlation matrix
    sheet_corr,       \* per-sheet correlation matrices
    sheet_scores,     \* groupby("Sheet") aggregate with the SRI column
    lag,              \* ref_col, compare_col and max_lag of the cross correlation
    xcorr,            \* the lag-correlation series
    exception,        \* the uncaught exception that ended the run (<<>> = none)
    rng,              \* state of numpy's process-wide random generator
    preview,          \* v04: the rows shown by st.dataframe(df_all.sample(10))
    global_metrics,   \* v09: global diagnostic metrics
    diagnostics,      \* v09: per-sheet diagnostic metrics
    run,              \* how many times the script has been started on this upload
    first_run         \* what the first run read and produced (<<>> during it)

vars == <<version, book, pc, selected_sheets, xls, shape, dfs, df_all, categories,
          unified_time, window, global_corr, sheet_corr, sheet_scores, lag, xcorr,
          exception, rng, preview, global_metrics, diagnostics, run, first_run>>

input == <<version, book, selected_sheets, xls, shape, dfs>>
corrs == <<global_corr, sheet_corr>>
lagvars == <<lag, xcorr>>
diags == <<global_metrics, diagnostics>>
reruns == <<run, first_run>>
extras == <<exception, rng, preview, diags, reruns>>

----------------------------------------------------------------------------
(* Bounds of the model *)

\* total number of spreadsheet rows over all selected sheets
MaxRows == 3

----------------------------------------------------------------------------
(* IEEE-style numbers as exact rationals *)

NaN == <<0, 0>>
PosInf == <<1, 0>>
NegInf == <<-1, 0>>

Abs(n) == IF n < 0 THEN -n ELSE n
Sgn(n) == IF n < 0 THEN -1 ELSE IF n > 0 THEN 1 ELSE 0

RECURSIVE GCD(_, _)
GCD(a, b) == IF b = 0 THEN a ELSE GCD(b, a % b)

\* n/d with d # 0, in lowest terms with a positive denominator
Norm(n, d) ==
    LET g == GCD(Abs(n), Abs(d))
    IN  <<(Sgn(d) * n) \div g, Abs(d) \div g>>

R(n) == <<n, 1>>
IsNaN(x) == x = NaN
IsInf(x) == x[2] = 0 /\ x[1] # 0
IsFinite(x) == x[2] > 0

RNeg(x) == <<-x[1], x[2]>>
RAbs(x) == <<Abs(x[1]), x[2]>>

RAdd(x, y) ==
    IF IsNaN(x) \/ IsNaN(y) THEN NaN
    ELSE IF IsInf(x) /\ IsInf(y) THEN (IF x = y THEN x ELSE NaN)
    ELSE IF IsInf(x) THEN x
    ELSE IF IsInf(y) THEN y
    ELSE Norm(x[1] * y[2] + y[1] * x[2], x[2] * y[2])

RSub(x, y) == RAdd(x, RNeg(y))

RMul(x, y) ==
    IF IsNaN(x) \/ IsNaN(y) THEN NaN
    ELSE IF IsInf(x) \/ IsInf(y)
         THEN (IF x[1] = 0 \/ y[1] = 0 THEN NaN ELSE <<Sgn(x[1]) * Sgn(y[1]), 0>>)
    ELSE Norm(x[1] * y[1], x[2] * y[2])

\* float division: x/0 is +-inf, 0/0 is NaN, nothing raises
RDiv(x, y) ==
    IF IsNaN(x) \/ IsNaN(y) THEN NaN
    ELSE IF IsInf(y) THEN (IF IsInf(x) THEN NaN ELSE R(0))
    ELSE IF IsInf(x) THEN <<Sgn(x[1]) * (IF y[1] < 0 THEN -1 ELSE 1), 0>>
    ELSE IF y[1] = 0 THEN (IF x[1] = 0 THEN NaN ELSE <<Sgn(x[1]), 0>>)
    ELSE Norm(x[1] * y[2], x[2] * y[1])

\* x < y on finite numbers
RLess(x, y) == x[1] * y[2] < y[1] * x[2]

----------------------------------------------------------------------------
(* Timestamp cells and format_excel_time *)

\* a missing timestamp: the float NaN in a column of labels (not the text "nan")
NaNLabel == "NaN"

\* a numeric cell <<"num", k>> is the day-fraction k / FracDen: a third of a
\* minute is far from the rounding errors of the float product t * 24 * 60 and
\* from the ties of round(), so the exact arithmetic below gives what the
\* floats give
FracDen == 3 * 24 * 60

\* int(): the integer part, towards zero (here of a quotient that is not negative)
RoundDown(n, d) == n \div d

Pad2(n) == IF 0 <= n /\ n < 10 THEN "0" \o ToString(n) ELSE ToString(n)

\* Python round(): to the nearest integer, ties to the even one
RoundHalfEven(n, d) ==
    LET q == n \div d
        r == n % d
    IN  IF 2 * r < d THEN q
        ELSE IF 2 * r > d THEN q + 1
        ELSE IF q % 2 = 0 THEN q ELSE q + 1

HHMM(h, m) == Pad2(h) \o ":" \o Pad2(m)

\* a formatter that coerces a text that is no time to NaN
format_excel_time_coerce(t) ==
    CASE t[1] = "null" -> NaNLabel
      [] t[1] = "datetime" -> HHMM(t[2], t[3])
      [] t[1] = "time" -> HHMM(t[2], t[3])
      [] t[1] = "num" ->
            LET minutes == RoundHalfEven(t[2] * 24 * 60, FracDen)
            IN  HHMM(minutes \div 60, minutes % 60)
      [] t[1] = "str" -> HHMM(t[2], t[3])
      [] t[1] = "text" -> NaNLabel

format_excel_time(t) ==
    CASE t[1] = "null" -> NaNLabel
      [] t[1] = "datetime" -> HHMM(t[2], t[3])
      [] t[1] = "time" -> HHMM(t[2], t[3])
      [] t[1] = "num" ->
            LET minutes == RoundHalfEven(t[2] * 24 * 60, FracDen)
            IN  HHMM(minutes \div 60, minutes % 60)
      [] t[1] = "str" -> HHMM(t[2], t[3])
      [] t[1] = "text" -> t[2]

----------------------------------------------------------------------------
(* Column statistics with pandas' NaN-skipping semantics *)

RECURSIVE SumSeq(_)
SumSeq(s) == IF s = <<>> THEN R(0) ELSE RAdd(s[1], SumSeq(Tail(s)))

NotNaN(x) == ~IsNaN(x)
Valid(col) == SelectSeq(col, NotNaN)
Squares(col) == [i \in DOMAIN col |-> RMul(col[i], col[i])]

\* Series.mean(): NaN of an empty or all-NaN column
Mean(col) ==
    LET v == Valid(col)
    IN  IF Len(v) = 0 THEN NaN ELSE RDiv(SumSeq(v), R(Len(v)))

\* the population variance (ddof = 0): 0 of a single value
VarPopulation(col) ==
    LET v == Valid(col)
        n == Len(v)
        s == SumSeq(v)
    IN  IF n < 1 THEN NaN
        ELSE RDiv(RSub(RMul(R(n), SumSeq(Squares(v))), RMul(s, s)), R(n * n))

\* sample variance (ddof = 1); NaN with fewer than two values
Var(col) ==
    LET v == Valid(col)
        n == Len(v)
        s == SumSeq(v)
    IN  IF n < 2 THEN NaN
        ELSE RDiv(RSub(RMul(R(n), SumSeq(Squares(v))), RMul(s, s)), R(n * (n - 1)))

RECURSIVE IsqrtIn(_, _, _)
IsqrtIn(n, lo, hi) ==
    IF lo >= hi THEN lo
    ELSE LET mid == (lo + hi + 1) \div 2
         IN  IF mid * mid <= n THEN IsqrtIn(n, mid, hi) ELSE IsqrtIn(n, lo, mid - 1)

\* floor of the square root of a natural number below 2^31
Isqrt(n) == IsqrtIn(n, 0, IF n > 46340 THEN 46340 ELSE n)

\* resolution of an irrational square root: results are multiples of 1/SqrtScale
SqrtScale == 100

\* sqrt of a float: exact on squares of rationals, rounded down otherwise
RSqrt(x) ==
    IF IsNaN(x) THEN NaN
    ELSE IF IsInf(x) THEN (IF x[1] > 0 THEN PosInf ELSE NaN)
    ELSE IF x[1] < 0 THEN NaN
    ELSE LET a == Isqrt(x[1])
             b == Isqrt(x[2])
         IN  IF a * a = x[1] /\ b * b = x[2] THEN Norm(a, b)
             ELSE Norm(Isqrt((x[1] * SqrtScale * SqrtScale) \div x[2]), SqrtScale)

\* Series.std()
Std(col) == RSqrt(Var(col))

----------------------------------------------------------------------------
(* Pearson correlation, kept exactly as <<sign, n, d>> with r^2 = n/d *)

CorrNaN == <<0, 0, 0>>
CorrOne == <<1, 1, 1>>

\* every position, whether it holds a value or not
PairIdxAll(x, y) == DOMAIN x

\* the positions at which both columns hold a value (pairwise NaN exclusion)
PairIdx(x, y) == {i \in DOMAIN x : NotNaN(x[i]) /\ NotNaN(y[i])}

RECURSIVE SumOver(_, _)
SumOver(f, S) ==
    IF S = {} THEN R(0)
    ELSE LET i == CHOOSE j \in S : TRUE
         IN  RAdd(f[i], SumOver(f, S \ {i}))

\* the co-moment without the pair count: sum(x*y) - sum(x) * sum(y)
CoMomentNoCount(n, sxy, sx, sy) == RSub(sxy, RMul(sx, sy))

\* n * sum(x*y) - sum(x) * sum(y), from the sums over the n pairs
CoMoment(n, sxy, sx, sy) == RSub(RMul(R(n), sxy), RMul(sx, sy))

\* corr of two equally long columns: NaN when no pair is left or when one side
\* is constant over the pairs (zero divisor)
Pearson(x, y) ==
    LET P == PairIdx(x, y)
        n == Cardinality(P)
        sx == SumOver(x, P)
        sy == SumOver(y, P)
        sxy == CoMoment(n, SumOver([i \in DOMAIN x |-> RMul(x[i], y[i])], P), sx, sy)
        sxx == CoMoment(n, SumOver([i \in DOMAIN x |-> RMul(x[i], x[i])], P), sx, sx)
        syy == CoMoment(n, SumOver([i \in DOMAIN x |-> RMul(y[i], y[i])], P), sy, sy)
    IN  IF P = {} THEN CorrNaN
        ELSE IF ~(IsFinite(sxy) /\ IsFinite(sxx) /\ IsFinite(syy)) THEN CorrNaN
        ELSE IF sxx[1] = 0 \/ syy[1] = 0 THEN CorrNaN
        ELSE LET q == RDiv(RMul(sxy, sxy), RMul(sxx, syy))
             IN  <<Sgn(sxy[1]), q[1], q[2]>>

Col(df, c) == [i \in DOMAIN df |-> df[i][c]]

\* DataFrame.corr() over the columns cols
CorrMatrix(df, cols) ==
    [p \in cols \X cols |-> Pearson(Col(df, p[1]), Col(df, p[2]))]

----------------------------------------------------------------------------
(* The uploaded workbook *)

\* xls.sheet_names
AllSheets == <<"0526_A", "0528_B">>

\* what st.multiselect can return: the chosen names, in workbook order
Selections == {<<AllSheets[1]>>, <<AllSheets[2]>>, AllSheets}

\* The scenario sheet: labels 09:00, 09:05, 09:10, quantity 0, 5, 10, metric A
\* 0, 10, 20 and metric B 0, 8, 18
ScenarioSheet ==
    << [ts |-> <<"time", 9, 0>>,  q |-> R(0),  a |-> R(0),  b |-> R(0)],
       [ts |-> <<"time", 9, 5>>,  q |-> R(5),  a |-> R(10), b |-> R(8)],
       [ts |-> <<"time", 9, 10>>, q |-> R(10), a |-> R(20), b |-> R(18)] >>

\* Spreadsheet rows (timestamp cell, quantity, sensor 1, sensor 2) the sheets of a
\* workbook are drawn from.
\*   "plant": a missing timestamp, a zero and a missing quantity, a missing reading
\*            of either sensor, and an ordinary row; 1635/4320 of a day is 09:05
\*   "dated": date-time cells out of time order, readings missing in different rows
\*   "shift": the rows of the scenario sheet and a row without timestamp
\*   "idle":  a row without timestamp, a row of readings at quantity 0, and two
\*            rows whose readings of sensor 1 cancel
\*   "ragged": a timestamp cell that holds a text, an ordinary row, and a row
\*            without timestamp
\*   "clock": every day-fraction of two days, in steps of a third of a minute
\*   "keys":  a time of day and two texts, one of them with an underscore
RowDomain(bk) ==
    CASE bk = "plant" ->
            { [ts |-> <<"null">>,       q |-> R(2), a |-> R(4), b |-> R(2)],
              [ts |-> <<"time", 9, 0>>, q |-> R(0), a |-> R(4), b |-> R(2)],
              [ts |-> <<"time", 9, 0>>, q |-> NaN,  a |-> NaN,  b |-> R(1)],
              [ts |-> <<"num", 1635>>,  q |-> R(2), a |-> R(4), b |-> NaN],
              [ts |-> <<"num", 1635>>,  q |-> R(1), a |-> R(3), b |-> R(1)] }
      [] bk = "dated" ->
            { [ts |-> <<"datetime", 9, 10>>, q |-> R(2), a |-> R(4), b |-> NaN],
              [ts |-> <<"datetime", 9, 0>>,  q |-> R(1), a |-> NaN,  b |-> R(1)],
              [ts |-> <<"datetime", 9, 5>>,  q |-> R(3), a |-> R(3), b |-> R(2)],
              [ts |-> <<"datetime", 9, 15>>, q |-> R(0), a |-> R(5), b |-> R(5)] }
      [] bk = "shift" ->
            {ScenarioSheet[i] : i \in DOMAIN ScenarioSheet}
                \cup { [ts |-> <<"null">>, q |-> R(5), a |-> R(10), b |-> R(8)] }
      [] bk = "idle" ->
            { [ts |-> <<"null">>,        q |-> R(2), a |-> R(4),  b |-> R(2)],
              [ts |-> <<"time", 9, 0>>,  q |-> R(0), a |-> R(4),  b |-> R(0)],
              [ts |-> <<"time", 9, 5>>,  q |-> R(1), a |-> R(2),  b |-> R(0)],
              [ts |-> <<"time", 9, 10>>, q |-> R(1), a |-> R(-2), b |-> R(0)] }
      [] bk = "keys" ->
            { [ts |-> <<"time", 9, 0>>,     q |-> R(1), a |-> R(3), b |-> R(1)],
              [ts |-> <<"text", "A_09:00">>, q |-> R(2), a |-> R(4), b |-> R(2)],
              [ts |-> <<"text", "break">>,   q |-> R(1), a |-> R(2), b |-> R(2)] }
      [] bk = "clock" ->
            { [ts |-> <<"num", k>>, q |-> R(1), a |-> R(3), b |-> R(1)] :
                k \in 0..(2 * FracDen) }
      [] bk = "ragged" ->
            { [ts |-> <<"text", "break">>, q |-> R(2), a |-> R(4), b |-> R(2)],
              [ts |-> <<"time", 9, 0>>,    q |-> R(1), a |-> R(3), b |-> R(1)],
              [ts |-> <<"null">>,          q |-> R(1), a |-> R(2), b |-> R(2)] }

\* len(df.columns) of the sheets of a workbook: the "ragged" workbooks also hold
\* sheets of three and of five columns
ColumnCounts(bk) == IF bk = "ragged" THEN {3, 4, 5} ELSE {4}

\* header of the fifth column of a sheet that has one
FifthColumn == "Remark"

\* a spreadsheet row cut or extended to the w columns of its sheet
Cells(r, w) ==
    CASE w = 3 -> [ts |-> r.ts, q |-> r.q, a |-> r.a]
      [] w = 4 -> r
      [] w = 5 -> r @@ (FifthColumn :> R(7))

\* rows every sheet given to v04 ends with
PadLen == 5

\* PadLen ordinary rows, 10:00, 10:05, ...
PadRows(bk) ==
    [i \in 1..PadLen |->
        [ts |-> <<IF bk = "dated" THEN "datetime" ELSE "time", 10, 5 * (i - 1)>>,
         q |-> R(1 + (i % 2)), a |-> R(2 + (i % 3)), b |-> R(2)]]

\* v04 draws a sample of ten rows of the combined table and needs that many: its
\* sheets end with the rows of PadRows
Padding(v, bk) == IF v = "v04" THEN PadRows(bk) ELSE <<>>

\* the sequences of at most n elements of S
SeqsUpTo(S, n) == UNION {[1..k -> S] : k \in 0..n}

RECURSIVE Flatten(_)
Flatten(ss) == IF ss = <<>> THEN <<>> ELSE ss[1] \o Flatten(Tail(ss))

\* The sheets the next read_excel can return: MaxRows bounds the rows of a
\* workbook; a sheet of the "shift" workbooks is as long as the scenario sheet at
\* most, a sheet of the "clock" workbooks has one row
NextSheets ==
    IF book = "shift" THEN SeqsUpTo(RowDomain(book), Len(ScenarioSheet))
    ELSE IF book = "clock" THEN {<<r>> \o Padding(version, book) : r \in RowDomain(book)}
    ELSE {rows \o Padding(version, book) :
             rows \in SeqsUpTo(RowDomain(book),
                               MaxRows + Len(xls) * Len(Padding(version, book))
                                   - Len(Flatten(xls)))}

\* every label of the model in the order of Python's sorted() on strings
LabelOrder ==
    <<"09:00", "09:05", "09:10", "09:15", "10:00", "10:05", "10:10", "10:15", "10:20",
      "10:25", "2025-05-26 09:00:00", "2025-05-26 09:05:00", "2025-05-26 09:10:00",
      "2025-05-26 09:15:00", "break", "nan">>

\* sorted(labels)
SortLabels(S) == SelectSeq(LabelOrder, LAMBDA l : l \in S)

----------------------------------------------------------------------------
(* v04-v09: sheet loading loop *)

\* df["Sheet"] + "_" + df["Timestamp"]: the sum is NaN where the label is NaN
TimeKeyOf(sheet, label) ==
    IF label = NaNLabel THEN NaNLabel ELSE sheet \o "_" \o label

\* the columns behind the fourth: rename() leaves them under their raw headers
Others(r) == [c \in DOMAIN r \ {"ts", "q", "a", "b"} |-> r[c]]

\* df.columns[w] on a sheet of w < 4 columns
RenameError(w) ==
    [type |-> "IndexError",
     message |-> <<"index ", ToString(w), " is out of bounds for axis 0 with size ",
                   ToString(w)>>]

\* v05-v09 loop body: positional rename, timestamp labels, sheet tags (TimeKey
\* from v07 on)
LoadFrame(v, sheet, raw) ==
    [i \in DOMAIN raw |->
        LET label == format_excel_time(raw[i].ts)
            row == [Timestamp |-> label,
                    Quantity |-> raw[i].q,
                    Sensor1 |-> raw[i].a,
                    Sensor2 |-> raw[i].b,
                    Sheet |-> sheet] @@ Others(raw[i])
        IN  IF v = "v05" THEN row ELSE row @@ [TimeKey |-> TimeKeyOf(sheet, label)]]

\* v04 loop body
LoadFrameV04(sheet, raw) ==
    [i \in DOMAIN raw |->
        [Timestamp |-> format_excel_time(raw[i].ts),
         Quantity |-> raw[i].q,
         RR_RH_1 |-> raw[i].a,
         RR_RH_2 |-> raw[i].b,
         Sheet |-> sheet] @@ Others(raw[i])]

(* concat, dropna, fillna, derived columns *)

\* pd.concat(dfs, ignore_index=True): a fresh index 0..n-1 in concatenation order;
\* the columns are the union of the frames' columns, NaN where a frame has none
Concat(frames) ==
    LET all == Flatten(frames)
        columns == UNION {DOMAIN all[i] : i \in DOMAIN all}
    IN  [i \in DOMAIN all |->
            all[i] @@ [c \in columns \ DOMAIN all[i] |-> NaN] @@ [idx |-> i - 1]]

HasNoNaN(r) ==
    /\ r.Timestamp # NaNLabel
    /\ \A c \in DOMAIN r \cap {"Quantity", "Sensor1", "Sensor2", "RR_RH_1", "RR_RH_2"} :
            NotNaN(r[c])

\* dropna() without the subset: drops every row that holds any NaN
DropNaAny(df) == SelectSeq(df, HasNoNaN)

HasTimestamp(r) == r.Timestamp # NaNLabel

\* dropna(subset=["Timestamp"]): the kept rows keep their index labels
DropNaTimestamp(df) == SelectSeq(df, HasTimestamp)

\* sorted(df_all["Timestamp"].unique()), the categories of pd.Categorical
TimeCategories(df) == SortLabels({df[i].Timestamp : i \in DOMAIN df})

\* a fill that leaves a NaN as it is
KeepCell(x) == x

FillCell(x) == IF IsNaN(x) THEN R(0) ELSE x

\* the columns of labels (and the index): after the dropna they hold no NaN
LabelColumns == {"Timestamp", "Sheet", "TimeKey", "idx"}

\* fillna(0) fills every column
FillNa(df) ==
    [i \in DOMAIN df |->
        [c \in DOMAIN df[i] |->
            IF c \in LabelColumns THEN df[i][c] ELSE FillCell(df[i][c])]]

\* a replace that matches nothing
ReplaceNothing(x, a, b) == x

\* Series.replace(a, b)
Replace(x, a, b) == IF x = a THEN b ELSE x

PerUnit(sensor, quantity) == RDiv(sensor, Replace(quantity, R(0), NaN))

Derive(df) ==
    [i \in DOMAIN df |->
        df[i] @@ [Sensor1_per_unit |-> PerUnit(df[i].Sensor1, df[i].Quantity),
                  Sensor2_per_unit |-> PerUnit(df[i].Sensor2, df[i].Quantity),
                  Delta |-> RSub(df[i].Sensor1, df[i].Sensor2)]]

\* v05-v09, lines 56-63
Combined(frames) == Derive(FillNa(DropNaTimestamp(Concat(frames))))

\* v04, lines 56-57
CombinedV04(frames) == DropNaTimestamp(Concat(frames))

----------------------------------------------------------------------------
(* Correlation matrices, rolling mean, first difference, SRI *)

\* v07-v09
corr_cols == {"Quantity", "Sensor1", "Sensor2", "Delta", "Sensor1_per_unit",
              "Sensor2_per_unit"}

\* v02-v04
numeric_cols == {"Quantity", "RR_RH_1", "RR_RH_2"}

\* largest rolling window of the model (the slider goes from 1 to 20)
MaxWindow == 2

\* a window that ends one row early (rows i-w .. i-1)
RollingMeanLagged(col, w, minp) ==
    [i \in DOMAIN col |->
        LET lo == IF i - w < 1 THEN 1 ELSE i - w
            v == Valid(SubSeq(col, lo, i - 1))
        IN  IF Len(v) < minp \/ Len(v) = 0 THEN NaN
            ELSE RDiv(SumSeq(v), R(Len(v)))]

\* Series.rolling(window=w, min_periods=minp).mean(): the window of row i is the
\* rows max(1, i-w+1)..i; NaN unless at least minp of them hold a value
RollingMean(col, w, minp) ==
    [i \in DOMAIN col |->
        LET lo == IF i - w + 1 < 1 THEN 1 ELSE i - w + 1
            v == Valid(SubSeq(col, lo, i))
        IN  IF Len(v) < minp \/ Len(v) = 0 THEN NaN
            ELSE RDiv(SumSeq(v), R(Len(v)))]

\* Series.diff()
Diff(col) == [i \in DOMAIN col |-> IF i = 1 THEN NaN ELSE RSub(col[i], col[i - 1])]

\* no filter by sheet: the whole table
SheetRowsAll(df, sheet) == df

\* df[df["Sheet"] == sheet], the rows of one groupby("Sheet") group
SheetRows(df, sheet) == SelectSeq(df, LAMBDA r : r.Sheet = sheet)

\* the score without the absolute value of the mean delta
SRINoAbs(std1, std2, delta) ==
    RSub(R(1), RDiv(RAdd(RAdd(std1, std2), delta), R(3)))

\* 1 - (std1 + std2 + |mean delta|) / 3
SRI(std1, std2, delta) ==
    RSub(R(1), RDiv(RAdd(RAdd(std1, std2), RAbs(delta)), R(3)))

\* groupby("Sheet").agg({per-unit: "std", per-unit: "std", "Delta": "mean"}): one
\* row per sheet name that occurs in the table
GroupAgg(df) ==
    [s \in {df[i].Sheet : i \in DOMAIN df} |->
        LET g == SheetRows(df, s)
        IN  [Sensor1_per_unit |-> Std(Col(g, "Sensor1_per_unit")),
             Sensor2_per_unit |-> Std(Col(g, "Sensor2_per_unit")),
             Delta |-> Mean(Col(g, "Delta"))]]

\* sheet_scores["SRI"] = 1 - (... + ... + sheet_scores["Delta"].abs()) / 3
WithSRI(scores) ==
    [s \in DOMAIN scores |->
        scores[s] @@ [SRI |-> SRI(scores[s].Sensor1_per_unit,
                                  scores[s].Sensor2_per_unit, scores[s].Delta)]]

----------------------------------------------------------------------------
(* v02, v03: loading, and the cross correlation of v02-v04 *)

\* An instant is <<"t", minutes after midnight>>; the date-time cells of a workbook
\* are all of one day, 2025-05-26.
NaT == <<"NaT">>

\* pd.to_datetime(cell, errors="coerce"): a date-time cell is kept, a missing cell
\* and a time-of-day cell (not convertible) become NaT
ToDatetimeV02(t) ==
    CASE t[1] = "datetime" -> <<"t", t[2] * 60 + t[3]>>
      [] t[1] \in {"null", "time", "text"} -> NaT

\* astype(str) of a cell
AsStr(t) ==
    CASE t[1] = "datetime" -> "2025-05-26 " \o HHMM(t[2], t[3]) \o ":00"
      [] t[1] = "time" -> HHMM(t[2], t[3]) \o ":00"
      [] t[1] = "null" -> "nan"
      [] t[1] = "text" -> t[2]

LoadFrameV02(sheet, raw) ==
    [i \in DOMAIN raw |->
        [Timestamp |-> ToDatetimeV02(raw[i].ts),
         Quantity |-> raw[i].q,
         RR_RH_1 |-> raw[i].a,
         RR_RH_2 |-> raw[i].b,
         Sheet |-> sheet] @@ Others(raw[i])]

LoadFrameV03(sheet, raw) ==
    [i \in DOMAIN raw |->
        [Timestamp |-> AsStr(raw[i].ts),
         Quantity |-> raw[i].q,
         RR_RH_1 |-> raw[i].a,
         RR_RH_2 |-> raw[i].b,
         Sheet |-> sheet] @@ Others(raw[i])]

\* sort key of an instant; NaT goes after every instant (na_position="last")
TimeKeyV(ts) == IF ts = NaT THEN 24 * 60 ELSE ts[2]

\* x inserted behind the rows of the sorted s that are not later than it
RECURSIVE InsertByTime(_, _)
InsertByTime(s, x) ==
    IF s = <<>> THEN <<x>>
    ELSE IF TimeKeyV(s[Len(s)].Timestamp) <= TimeKeyV(x.Timestamp)
         THEN Append(s, x)
         ELSE Append(InsertByTime(SubSeq(s, 1, Len(s) - 1), x), s[Len(s)])

\* sort_values(by the timestamp): rows ordered by instant, every row keeps its index
\* label.  The tables of the model have fewer than 17 rows, which numpy sorts by
\* insertion: equal instants stay in their order.
RECURSIVE SortValues(_)
SortValues(df) ==
    IF df = <<>> THEN <<>>
    ELSE InsertByTime(SortValues(SubSeq(df, 1, Len(df) - 1)), df[Len(df)])

\* a combination that drops the rows without an instant before it sorts
CombinedV02DropNaT(frames) ==
    SortValues(SelectSeq(Concat(frames), LAMBDA r : r.Timestamp # NaT))

\* v02, lines 28-29
CombinedV02(frames) == SortValues(Concat(frames))

\* df[c] as a Series: index labels and values
ColSeries(df, c) == [i \in DOMAIN df |-> [idx |-> df[i].idx, val |-> df[i][c]]]

\* Series.dropna(): the kept values keep their index labels
DropNaSeries(s) == SelectSeq(s, LAMBDA e : NotNaN(e.val))

\* Series.reset_index(drop=True)
ResetIndex(s) == [i \in DOMAIN s |-> [idx |-> i - 1, val |-> s[i].val]]

\* s[:n]
Truncate(s, n) == SubSeq(s, 1, n)

\* a shift in the opposite direction
ShiftBack(s, k) ==
    [i \in DOMAIN s |->
        [idx |-> s[i].idx,
         val |-> IF i + k \in DOMAIN s THEN s[i + k].val ELSE NaN]]

\* Series.shift(k): the values move k positions down (k < 0: up), the index stays
Shift(s, k) ==
    [i \in DOMAIN s |->
        [idx |-> s[i].idx,
         val |-> IF i - k \in DOMAIN s THEN s[i - k].val ELSE NaN]]

\* Series.corr(other): inner join of the two on the index labels, then Pearson over
\* the joined pairs that hold two values
SeriesCorr(s1, s2) ==
    LET labels == {s2[j].idx : j \in DOMAIN s2}
        left == SelectSeq(s1, LAMBDA e : e.idx \in labels)
        At(l) == s2[CHOOSE j \in DOMAIN s2 : s2[j].idx = l].val
    IN  Pearson(SubSeq([i \in DOMAIN left |-> left[i].val], 1, Len(left)),
                SubSeq([i \in DOMAIN left |-> At(left[i].idx)], 1, Len(left)))

\* largest max_lag of the model (the slider goes from 1 to 100)
MaxLag == 2

\* range(-L, L): one lag short
LagsHalfOpen(L) == [i \in 1..(2 * L) |-> i - L - 1]

\* list(range(-max_lag, max_lag + 1))
Lags(L) == [i \in 1..(2 * L + 1) |-> i - L - 1]

Min(a, b) == IF a < b THEN a ELSE b

\* the two series of the cross correlation: nulls dropped, (from v03 on) index
\* reset, both cut to the shorter length
XSeries(v, df, c) ==
    IF v = "v02" THEN DropNaSeries(ColSeries(df, c))
    ELSE ResetIndex(DropNaSeries(ColSeries(df, c)))

\* [s1.corr(s2.shift(lag)) for lag in lags]
XCorr(v, df, ref, cmp, L) ==
    LET s1 == XSeries(v, df, ref)
        s2 == XSeries(v, df, cmp)
        min_len == Min(Len(s1), Len(s2))
        t1 == Truncate(s1, min_len)
        t2 == Truncate(s2, min_len)
        lags == Lags(L)
    IN  [i \in DOMAIN lags |-> SeriesCorr(t1, Shift(t2, lags[i]))]

----------------------------------------------------------------------------
(* v01: unified timeline and left-merge alignment *)

\* pd.to_datetime(cell.astype(str)): the text of a time-of-day cell parses to that
\* time of the current day, the text of a date-time cell to its instant, "nan" to NaT
ToDatetimeV01(t) ==
    CASE t[1] \in {"time", "datetime"} -> <<"t", t[2] * 60 + t[3]>>
      [] t[1] = "null" -> NaT

\* df[df['생산수량'] > 0]
ValidRows(df) == SelectSeq(df, LAMBDA r : RLess(R(0), r.Quantity))

\* df.columns = [four names] on a sheet of w # 4 columns
ColumnsError(w) ==
    [type |-> "ValueError",
     message |-> <<"Length mismatch: Expected axis has ", ToString(w),
                   " elements, new values have ", "4", " elements">>]

\* pd.to_datetime on a text that is no date
ParseError(t) ==
    [type |-> "ValueError",
     message |-> <<"Unknown datetime string format, unable to parse: ", t[2]>>]

\* the timestamp cells of a sheet that pd.to_datetime cannot parse
Unparseable(raw) == SelectSeq([i \in DOMAIN raw |-> raw[i].ts], LAMBDA t : t[1] = "text")

\* v01 loop body: positional rename, to_datetime, sort by time, filter.  The field
\* row is not a column: it records the position of the row in the sheet as read.
LoadFrameV01(raw) ==
    ValidRows(SortValues(
        [i \in DOMAIN raw |->
            [Timestamp |-> ToDatetimeV01(raw[i].ts),
             Quantity |-> raw[i].q,
             RR_RH_1 |-> raw[i].a,
             RR_RH_2 |-> raw[i].b,
             row |-> i]]))

\* all_times after the loop
AllTimes(frames) ==
    LET all == Flatten(frames) IN [i \in DOMAIN all |-> all[i].Timestamp]

\* sorted(pd.Series(all_times).unique()), as the set of the results it can have.
\* No comparison with NaT is true, so a list that holds NaT can come out of
\* sorted() in an order that is not the order of time.
UnifiedTimes(times) ==
    LET S == {times[i] : i \in DOMAIN times}
        perms == {f \in [1..Cardinality(S) -> S] :
                     \A i, j \in 1..Cardinality(S) : f[i] = f[j] => i = j}
    IN  IF NaT \in S THEN perms
        ELSE {f \in perms : \A i, j \in DOMAIN f : i < j => f[i][2] < f[j][2]}

\* an inner merge: only the instants the sheet has a row for
MergeInner(ut, df, sheet) ==
    Flatten([j \in DOMAIN ut |->
        LET m == SelectSeq(df, LAMBDA r : r.Timestamp = ut[j])
        IN  [i \in DOMAIN m |-> m[i] @@ [Sheet |-> sheet]]])

\* pd.merge(DataFrame({time: unified_time}), df, on=time, how="left") and the Sheet
\* tag: under every instant of the timeline the rows of the sheet with that
\* instant (NaT matches NaT), or one row of NaN when the sheet has none
MergeLeft(ut, df, sheet) ==
    Flatten([j \in DOMAIN ut |->
        LET m == SelectSeq(df, LAMBDA r : r.Timestamp = ut[j])
        IN  IF m = <<>>
            THEN << [Timestamp |-> ut[j], Quantity |-> NaN, RR_RH_1 |-> NaN,
                     RR_RH_2 |-> NaN, row |-> 0, Sheet |-> sheet] >>
            ELSE [i \in DOMAIN m |-> m[i] @@ [Sheet |-> sheet]]])

----------------------------------------------------------------------------
(* The pass of v04, v05 and v07-v09 up to the reliability index *)

\* the revisions that derive the columns at load time
Derived(v) == v \in {"v05", "v07"}

Blank ==
    /\ pc = "select"
    /\ selected_sheets = <<>>
    /\ xls = <<>>
    /\ dfs = <<>>
    /\ df_all = <<>>
    /\ categories = <<>>
    /\ unified_time = <<>>
    /\ window = 0
    /\ global_corr = <<>>
    /\ sheet_corr = <<>>
    /\ sheet_scores = <<>>
    /\ lag = <<>>
    /\ xcorr = <<>>
    /\ shape = <<>>
    /\ exception = <<>>
    /\ rng = 0
    /\ preview = <<>>
    /\ global_metrics = <<>>
    /\ diagnostics = <<>>
    /\ run = 1
    /\ first_run = <<>>

Init ==
    /\ version \in {"v04", "v05", "v07"}
    /\ book = "plant"
    /\ Blank

SelectSheets ==
    /\ pc = "select"
    /\ \E sel \in Selections : selected_sheets' = sel
    /\ pc' = "load"
    /\ UNCHANGED <<version, book, xls, shape, dfs, df_all, categories, unified_time, window,
                   corrs, sheet_scores, lagvars, extras>>

\* for sheet in selected_sheets: read_excel, rename, format, tag, append; the
\* rename raises on a sheet of fewer than four columns and the run ends there
ReadSheet ==
    /\ pc = "load"
    /\ version # "v01"
    /\ Len(dfs) < Len(selected_sheets)
    /\ \E w \in ColumnCounts(book), rows \in NextSheets :
          LET sheet == selected_sheets[Len(dfs) + 1]
              raw == [i \in DOMAIN rows |-> Cells(rows[i], w)]
          IN  /\ xls' = Append(xls, raw)
              /\ shape' = Append(shape, w)
              /\ IF w < 4
                 THEN /\ exception' = RenameError(w)
                      /\ pc' = "error"
                      /\ dfs' = dfs
                 ELSE /\ dfs' = Append(dfs,
                            CASE Derived(version) -> LoadFrame(version, sheet, raw)
                              [] version = "v04" -> LoadFrameV04(sheet, raw)
                              [] version = "v03" -> LoadFrameV03(sheet, raw)
                              [] version = "v02" -> LoadFrameV02(sheet, raw))
                      /\ UNCHANGED <<pc, exception>>
    /\ UNCHANGED <<version, book, selected_sheets, df_all, categories,
                   unified_time, window, corrs, sheet_scores, lagvars, rng, preview,
                   diags, reruns>>

\* concat, dropna on the timestamp, (v05-v09: fillna and derived columns,) and the
\* ordered categorical timestamp of v03-v05; v02 sorts by timestamp instead
Combine ==
    /\ pc = "load"
    /\ version # "v01"
    /\ Len(dfs) = Len(selected_sheets)
    /\ df_all' = CASE Derived(version) -> Combined(dfs)
                   [] version \in {"v03", "v04"} -> CombinedV04(dfs)
                   [] version = "v02" -> CombinedV02(dfs)
    /\ categories' = IF version \in {"v03", "v04", "v05"}
                     THEN TimeCategories(df_all') ELSE <<>>
    /\ pc' = CASE version = "v07" -> "corr"
               [] version = "v05" -> "rolling"
               [] version = "v04" -> "preview"
               [] OTHER -> "xcorr"
    /\ UNCHANGED <<version, book, selected_sheets, xls, shape, dfs, unified_time, window,
                   corrs, sheet_scores, lagvars, extras>>

\* n of df.sample(n)
SampleSize == 10

\* df.sample(n) on a table of fewer than n rows
SampleError ==
    [type |-> "ValueError",
     message |-> <<"Cannot take a larger sample than population when 'replace=False'">>]

\* df.sample(n) at generator state g: n rows of df in an order that the state
\* fixes.  The generator itself is not modelled; the order stands for the
\* permutation it draws: the rows g+1, g+2, ... of the table, cyclically.
Sample(df, n, g) == [i \in 1..n |-> df[((g + i - 1) % Len(df)) + 1]]

\* v04: st.dataframe(df_all.sample(10)); the sample comes from numpy's generator
\* of the process, which every draw advances
Preview ==
    /\ pc = "preview"
    /\ IF Len(df_all) < SampleSize
       THEN /\ exception' = SampleError
            /\ pc' = "error"
            /\ UNCHANGED <<rng, preview>>
       ELSE /\ preview' = Sample(df_all, SampleSize, rng)
            /\ rng' = rng + 1
            /\ pc' = IF book = "dated" THEN "xcorr" ELSE "delta"
            /\ UNCHANGED exception
    /\ UNCHANGED <<input, df_all, categories, unified_time, window, corrs, sheet_scores,
                   lagvars, diags, reruns>>

\* v07-v09: df_all[corr_cols].corr()
GlobalCorr ==
    /\ pc = "corr"
    /\ global_corr' = CorrMatrix(df_all, corr_cols)
    /\ pc' = "rolling"
    /\ UNCHANGED <<input, df_all, categories, unified_time, window, sheet_corr,
                   sheet_scores, lagvars, extras>>

\* v04: df_all["Delta"] = df_all["RR_RH_1"] - df_all["RR_RH_2"]
DeltaV04 ==
    /\ pc = "delta"
    /\ df_all' = [i \in DOMAIN df_all |->
                    df_all[i] @@ [Delta |-> RSub(df_all[i].RR_RH_1, df_all[i].RR_RH_2)]]
    /\ pc' = "rolling"
    /\ UNCHANGED <<input, categories, unified_time, window, corrs, sheet_scores,
                   lagvars, extras>>

\* the two columns the rolling section of a revision smooths
RollCols(v) ==
    CASE v = "v04" -> <<"RR_RH_1", "RR_RH_2">>
      [] v = "v05" -> <<"Sensor1", "Sensor2">>
      [] v = "v07" -> <<"Sensor1_per_unit", "Sensor2_per_unit">>

\* the full-window policy for every revision
MinPeriodsFull(v, w) == w

\* min_periods of the rolling window of a revision: v04 passes none, so it is
\* the window itself
MinPeriods(v, w) == IF v = "v04" THEN w ELSE 1

\* the window slider and the rolling-mean columns (v04, v05: and the differences)
Rolling ==
    /\ pc = "rolling"
    /\ \E w \in 1..MaxWindow :
          /\ window' = w
          /\ df_all' =
                LET c == RollCols(version)
                    r1 == RollingMean(Col(df_all, c[1]), w, MinPeriods(version, w))
                    r2 == RollingMean(Col(df_all, c[2]), w, MinPeriods(version, w))
                    d1 == Diff(Col(df_all, c[1]))
                    d2 == Diff(Col(df_all, c[2]))
                    rolls == [i \in DOMAIN df_all |->
                                (c[1] \o "_roll" :> r1[i]) @@ (c[2] \o "_roll" :> r2[i])]
                    diffs == [i \in DOMAIN df_all |->
                                (c[1] \o "_diff" :> d1[i]) @@ (c[2] \o "_diff" :> d2[i])]
                IN  [i \in DOMAIN df_all |->
                        IF version = "v07" THEN df_all[i] @@ rolls[i]
                        ELSE df_all[i] @@ rolls[i] @@ diffs[i]]
    /\ pc' = IF version = "v07" THEN "sheetcorr" ELSE "done"
    /\ UNCHANGED <<input, categories, unified_time, corrs, sheet_scores, lagvars, extras>>

\* v07-v09: per-sheet correlation matrices
PerSheetCorr ==
    /\ pc = "sheetcorr"
    /\ sheet_corr' = [k \in DOMAIN selected_sheets |->
                         CorrMatrix(SheetRows(df_all, selected_sheets[k]), corr_cols)]
    /\ pc' = "sri"
    /\ UNCHANGED <<input, df_all, categories, unified_time, window, global_corr,
                   sheet_scores, lagvars, extras>>

SheetScores ==
    /\ pc = "sri"
    /\ sheet_scores' = GroupAgg(df_all)
    /\ pc' = "sricol"
    /\ UNCHANGED <<input, df_all, categories, unified_time, window, corrs, lagvars, extras>>

AddSRIColumn ==
    /\ pc = "sricol"
    /\ sheet_scores' = WithSRI(sheet_scores)
    /\ pc' = "done"
    /\ UNCHANGED <<input, df_all, categories, unified_time, window, corrs, lagvars, extras>>

Next ==
    \/ SelectSheets
    \/ ReadSheet
    \/ Combine
    \/ Preview
    \/ GlobalCorr
    \/ DeltaV04
    \/ Rolling
    \/ PerSheetCorr
    \/ SheetScores
    \/ AddSRIColumn

Spec == Init /\ [][Next]_vars

----------------------------------------------------------------------------
(* The pass of v02-v04 up to the cross correlation *)

InitLag ==
    /\ version \in {"v02", "v03", "v04"}
    /\ book = "dated"
    /\ Blank

\* the two selectboxes, the max_lag slider, and the lag-correlation series
CrossCorrelation ==
    /\ pc = "xcorr"
    /\ \E ref \in numeric_cols, L \in 1..MaxLag :
          \E cmp \in numeric_cols \ {ref} :
              /\ lag' = [ref_col |-> ref, compare_col |-> cmp, max_lag |-> L]
              /\ xcorr' = [lags |-> Lags(L), xcorr |-> XCorr(version, df_all, ref, cmp, L)]
    /\ pc' = "done"
    /\ UNCHANGED <<input, df_all, categories, unified_time, window, corrs,
                   sheet_scores, extras>>

NextLag ==
    \/ SelectSheets
    \/ ReadSheet
    \/ Combine
    \/ Preview
    \/ CrossCorrelation

SpecLag == InitLag /\ [][NextLag]_vars

----------------------------------------------------------------------------
(* The alignment of v01 next to the loading of v05 *)

InitAlign ==
    /\ version \in {"v01", "v05"}
    /\ book = "shift"
    /\ Blank

\* v01 loop body; the assignment to df.columns raises unless the sheet has four
\* columns, pd.to_datetime raises on a text that is no date
ReadSheetV01 ==
    /\ pc = "load"
    /\ version = "v01"
    /\ Len(dfs) < Len(selected_sheets)
    /\ \E w \in ColumnCounts(book), rows \in NextSheets :
          LET raw == [i \in DOMAIN rows |-> Cells(rows[i], w)]
          IN  /\ xls' = Append(xls, raw)
              /\ shape' = Append(shape, w)
              /\ IF w # 4 \/ Unparseable(raw) # <<>>
                 THEN /\ exception' = IF w # 4 THEN ColumnsError(w)
                                       ELSE ParseError(Unparseable(raw)[1])
                      /\ pc' = "error"
                      /\ dfs' = dfs
                 ELSE /\ dfs' = Append(dfs, LoadFrameV01(raw))
                      /\ UNCHANGED <<pc, exception>>
    /\ UNCHANGED <<version, book, selected_sheets, df_all, categories,
                   unified_time, window, corrs, sheet_scores, lagvars, rng, preview,
                   diags, reruns>>

UnifiedTimeline ==
    /\ pc = "load"
    /\ version = "v01"
    /\ Len(dfs) = Len(selected_sheets)
    /\ unified_time' \in UnifiedTimes(AllTimes(dfs))
    /\ pc' = "align"
    /\ UNCHANGED <<input, df_all, categories, window, corrs, sheet_scores, lagvars, extras>>

\* the alignment loop and pd.concat(aligned_data, ignore_index=True)
Align ==
    /\ pc = "align"
    /\ df_all' = Concat([k \in DOMAIN dfs |->
                            MergeLeft(unified_time, dfs[k], selected_sheets[k])])
    /\ pc' = "done"
    /\ UNCHANGED <<input, categories, unified_time, window, corrs, sheet_scores,
                   lagvars, extras>>

NextAlign ==
    \/ SelectSheets
    \/ ReadSheet
    \/ Combine
    \/ ReadSheetV01
    \/ UnifiedTimeline
    \/ Align

SpecAlign == InitAlign /\ [][NextAlign]_vars

----------------------------------------------------------------------------
(* The SRI column on its own, over drawn aggregates *)

\* a standard deviation a groupby can return: NaN (fewer than two values) or >= 0
StdValues == {NaN, R(0), <<1, 2>>, R(1)}

\* a mean of Delta a groupby can return
MeanValues == {NaN, R(-1), <<-1, 2>>, R(0), <<1, 2>>, R(1)}

\* the aggregate of two sheets just before the SRI column is added
InitSRI ==
    /\ version = "v07"
    /\ book = "plant"
    /\ pc = "sricol"
    /\ selected_sheets = AllSheets
    /\ sheet_scores \in
          [{AllSheets[1], AllSheets[2]} ->
              [Sensor1_per_unit : StdValues, Sensor2_per_unit : StdValues,
               Delta : MeanValues]]
    /\ xls = <<>>
    /\ dfs = <<>>
    /\ df_all = <<>>
    /\ categories = <<>>
    /\ unified_time = <<>>
    /\ window = 0
    /\ global_corr = <<>>
    /\ sheet_corr = <<>>
    /\ lag = <<>>
    /\ xcorr = <<>>
    /\ shape = <<>>
    /\ exception = <<>>
    /\ rng = 0
    /\ preview = <<>>
    /\ global_metrics = <<>>
    /\ diagnostics = <<>>
    /\ run = 1
    /\ first_run = <<>>

NextSRI == AddSRIColumn

SpecSRI == InitSRI /\ [][NextSRI]_vars

----------------------------------------------------------------------------
(* v07-v09 on a workbook whose sheet names share a prefix *)

\* xls.sheet_names of such a workbook, all selected
KeySheets == <<"0526", "0526_A">>

InitKey ==
    /\ version = "v07"
    /\ book = "keys"
    /\ pc = "load"
    /\ selected_sheets = KeySheets
    /\ xls = <<>>
    /\ dfs = <<>>
    /\ df_all = <<>>
    /\ categories = <<>>
    /\ unified_time = <<>>
    /\ window = 0
    /\ global_corr = <<>>
    /\ sheet_corr = <<>>
    /\ sheet_scores = <<>>
    /\ lag = <<>>
    /\ xcorr = <<>>
    /\ shape = <<>>
    /\ exception = <<>>
    /\ rng = 0
    /\ preview = <<>>
    /\ global_metrics = <<>>
    /\ diagnostics = <<>>
    /\ run = 1
    /\ first_run = <<>>

NextKey ==
    \/ ReadSheet
    \/ Combine

SpecKey == InitKey /\ [][NextKey]_vars

----------------------------------------------------------------------------
(* The timestamp column of one sheet of day-fractions *)

InitFormat ==
    /\ version \in {"v04", "v05", "v07"}
    /\ book = "clock"
    /\ pc = "load"
    /\ selected_sheets = <<AllSheets[1]>>
    /\ xls = <<>>
    /\ dfs = <<>>
    /\ df_all = <<>>
    /\ categories = <<>>
    /\ unified_time = <<>>
    /\ window = 0
    /\ global_corr = <<>>
    /\ sheet_corr = <<>>
    /\ sheet_scores = <<>>
    /\ lag = <<>>
    /\ xcorr = <<>>
    /\ shape = <<>>
    /\ exception = <<>>
    /\ rng = 0
    /\ preview = <<>>
    /\ global_metrics = <<>>
    /\ diagnostics = <<>>
    /\ run = 1
    /\ first_run = <<>>

NextFormat == ReadSheet

SpecFormat == InitFormat /\ [][NextFormat]_vars

----------------------------------------------------------------------------
(* v04 and v05 run twice in one process on the same inputs *)

InitRerun ==
    /\ version \in {"v04", "v05"}
    /\ book = "plant"
    /\ Blank

\* what a run took in and what it showed
Record ==
    [selected_sheets |-> selected_sheets, xls |-> xls, window |-> window,
     df_all |-> df_all, categories |-> categories, preview |-> preview,
     exception |-> exception, pc |-> pc]

IsPrefix(s, t) == Len(s) <= Len(t) /\ s = SubSeq(t, 1, Len(s))

\* the second run is given what the first was given: the same selection, the same
\* sheets, the same window
Replay ==
    run = 2 =>
        /\ selected_sheets' \in {<<>>, first_run.selected_sheets}
        /\ IsPrefix(xls', first_run.xls)
        /\ window' \in {0, first_run.window}

\* Streamlit runs the script again from its first line, in the same process: the
\* variables of the script start afresh, the state of the modules it imports
\* (numpy's generator) stays
Rerun ==
    /\ run = 1
    /\ pc \in {"done", "error"}
    /\ first_run' = Record
    /\ run' = 2
    /\ pc' = "select"
    /\ selected_sheets' = <<>>
    /\ xls' = <<>>
    /\ shape' = <<>>
    /\ dfs' = <<>>
    /\ df_all' = <<>>
    /\ categories' = <<>>
    /\ window' = 0
    /\ exception' = <<>>
    /\ preview' = <<>>
    /\ UNCHANGED <<version, book, unified_time, corrs, sheet_scores, lagvars, rng,
                   diags>>

NextRerun ==
    \/ SelectSheets /\ Replay
    \/ ReadSheet /\ Replay
    \/ Combine /\ Replay
    \/ Preview /\ Replay
    \/ DeltaV04 /\ Replay
    \/ Rolling /\ Replay
    \/ Rerun

SpecRerun == InitRerun /\ [][NextRerun]_vars

----------------------------------------------------------------------------
(* v09: the diagnostic metrics, over the combined tables of two sheets *)

\* (s > 0).astype(int).diff().abs().sum() / n
TransitionRate(quantity) ==
    LET flags == [i \in DOMAIN quantity |->
                    IF IsNaN(quantity[i]) THEN R(0)
                    ELSE IF RLess(R(0), quantity[i]) THEN R(1) ELSE R(0)]
        steps == Diff(flags)
    IN  RDiv(SumSeq(Valid([i \in DOMAIN steps |-> RAbs(steps[i])])),
             R(Len(quantity)))

\* Series.sum(): the NaN are skipped, 0 for an empty column
Sum(col) == SumSeq(Valid(col))

\* the five metrics of a table df: numpy divides, so a zero divisor gives NaN
\* under a zero and an infinity under any other dividend
Metrics(df) ==
    [SEE1 |-> RDiv(Sum(Col(df, "Sensor1")), Sum(Col(df, "Quantity"))),
     SEE2 |-> RDiv(Sum(Col(df, "Sensor2")), Sum(Col(df, "Quantity"))),
     TransitionRate |-> TransitionRate(Col(df, "Quantity")),
     SPWD1 |-> RDiv(Std(Col(df, "Sensor1_per_unit")), Mean(Col(df, "Sensor1_per_unit"))),
     SPWD2 |-> RDiv(Std(Col(df, "Sensor2_per_unit")), Mean(Col(df, "Sensor2_per_unit")))]

\* the combined table of the two sheets of a workbook, at the diagnostics section
InitDiag ==
    /\ version = "v09"
    /\ book = "idle"
    /\ pc = "diag"
    /\ selected_sheets = AllSheets
    /\ \E rows \in SeqsUpTo(RowDomain(book), MaxRows) : \E n \in 0..Len(rows) :
          xls = <<SubSeq(rows, 1, n), SubSeq(rows, n + 1, Len(rows))>>
    /\ shape = <<4, 4>>
    /\ dfs = [k \in DOMAIN xls |-> LoadFrame(version, selected_sheets[k], xls[k])]
    /\ df_all = Combined(dfs)
    /\ categories = <<>>
    /\ unified_time = <<>>
    /\ window = 0
    /\ global_corr = <<>>
    /\ sheet_corr = <<>>
    /\ sheet_scores = <<>>
    /\ lag = <<>>
    /\ xcorr = <<>>
    /\ exception = <<>>
    /\ rng = 0
    /\ preview = <<>>
    /\ global_metrics = <<>>
    /\ diagnostics = <<>>
    /\ run = 1
    /\ first_run = <<>>

\* global_metrics = {...}
GlobalDiagnostics ==
    /\ pc = "diag"
    /\ global_metrics' = Metrics(df_all)
    /\ pc' = "sheetdiag"
    /\ UNCHANGED <<input, df_all, categories, unified_time, window, corrs, sheet_scores,
                   lagvars, exception, rng, preview, diagnostics, reruns>>

\* for sheet in selected_sheets: subset, row = {...}, diagnostics.append(row)
SheetDiagnostics ==
    /\ pc = "sheetdiag"
    /\ diagnostics' = [k \in DOMAIN selected_sheets |->
                          [Sheet |-> selected_sheets[k]]
                              @@ Metrics(SheetRows(df_all, selected_sheets[k]))]
    /\ pc' = "done"
    /\ UNCHANGED <<input, df_all, categories, unified_time, window, corrs, sheet_scores,
                   lagvars, exception, rng, preview, global_metrics, reruns>>

NextDiag ==
    \/ GlobalDiagnostics
    \/ SheetDiagnostics

SpecDiag == InitDiag /\ [][NextDiag]_vars

----------------------------------------------------------------------------
(* Workbooks with sheets of three, four and five columns and with timestamp
   cells that hold a text *)

InitShape ==
    /\ version \in {"v01", "v02", "v04", "v05", "v07"}
    /\ book = "ragged"
    /\ Blank

NextShape ==
    \/ SelectSheets
    \/ ReadSheet
    \/ ReadSheetV01
    \/ Combine
    \/ Preview

SpecShape == InitShape /\ [][NextShape]_vars

----------------------------------------------------------------------------
(* v07-v09 on the workbooks of the scenario, up to the global correlation matrix *)

InitShift ==
    /\ version = "v07"
    /\ book = "shift"
    /\ Blank

NextShift ==
    \/ SelectSheets
    \/ ReadSheet
    \/ Combine
    \/ GlobalCorr

SpecShift == InitShift /\ [][NextShift]_vars

----------------------------------------------------------------------------
(* Properties *)

\* the spreadsheet rows in reading order; the combined row with index label i
\* comes from RawRows[i + 1]
RawRows == Flatten(xls)
RawOf(r) == RawRows[r.idx + 1]

\* the loading loop ran to its end and the combined table was built
IsCombined == pc \notin {"select", "load"} /\ Len(dfs) = Len(selected_sheets)

\* the Delta column exists: from the load on in v05-v09, after its section in v04
HasDelta ==
    \/ Derived(version) /\ IsCombined
    \/ version = "v04" /\ pc \in {"rolling", "done"}

\* C1: every combined row whose Quantity is 0, or was missing and filled with 0,
\* has NaN (not infinity) in Sensor1_per_unit and Sensor2_per_unit
C1_ZeroQuantityGivesNaN ==
    Derived(version) /\ IsCombined =>
        \A i \in DOMAIN df_all :
            (df_all[i].Quantity = R(0) \/ RawOf(df_all[i]).q = R(0)
                \/ IsNaN(RawOf(df_all[i]).q))
            => /\ df_all[i].Sensor1_per_unit = NaN
               /\ df_all[i].Sensor2_per_unit = NaN

\* a table with a zero-quantity row of non-zero readings and a missing-quantity row
C1_Witness ==
    /\ Derived(version) /\ IsCombined
    /\ \E i \in DOMAIN df_all :
          /\ RawOf(df_all[i]).q = R(0)
          /\ df_all[i].Sensor1 # R(0)
          /\ df_all[i].Sensor1_per_unit = NaN
    /\ \E i \in DOMAIN df_all : IsNaN(RawOf(df_all[i]).q)

NullRows == {i \in DOMAIN RawRows : RawRows[i].ts[1] = "null"}

\* C2: the combined table holds exactly the spreadsheet rows that have a timestamp,
\* each once: its length is the number of rows read minus the rows without one
C2_RowCount ==
    version \in {"v04", "v05", "v07"} /\ IsCombined =>
        /\ Len(df_all) = Len(RawRows) - Cardinality(NullRows)
        /\ {df_all[i].idx + 1 : i \in DOMAIN df_all} = DOMAIN RawRows \ NullRows
        /\ \A i, j \in DOMAIN df_all : df_all[i].idx = df_all[j].idx => i = j

\* two loaded sheets, rows without a timestamp and rows with one (one of them
\* with a missing quantity)
C2_Witness ==
    /\ version \in {"v04", "v05", "v07"} /\ IsCombined
    /\ Len(xls) = 2 /\ xls[1] # <<>> /\ xls[2] # <<>>
    /\ NullRows # {}
    /\ \E i \in DOMAIN df_all : IsNaN(RawOf(df_all[i]).q)

\* C3: Delta is metricA - metricB when both readings are present in the input row
\* and NaN when either is missing
C3_DeltaNaNWhenMissing ==
    HasDelta =>
        \A i \in DOMAIN df_all :
            LET raw == RawOf(df_all[i])
            IN  IF NotNaN(raw.a) /\ NotNaN(raw.b)
                THEN df_all[i].Delta = RSub(raw.a, raw.b)
                ELSE df_all[i].Delta = NaN

NonConstant(col) ==
    \E i, j \in DOMAIN col : NotNaN(col[i]) /\ NotNaN(col[j]) /\ col[i] # col[j]

\* a correlation matrix m of the table df is symmetric, its defined entries lie in
\* [-1, 1] (r^2 <= 1), and the diagonal entry of a non-constant column is 1
CorrMatrixOK(m, df) ==
    \A a, b \in corr_cols :
        /\ m[<<a, b>>] = m[<<b, a>>]
        /\ m[<<a, b>>] = CorrNaN \/ (m[<<a, b>>][3] > 0 /\ m[<<a, b>>][2] <= m[<<a, b>>][3])
        /\ NonConstant(Col(df, a)) => m[<<a, a>>] = CorrOne

\* C6: the global and the per-sheet correlation matrices are symmetric, within
\* [-1, 1], and have 1 on the diagonal of every non-constant column
C6_CorrMatrix ==
    /\ version = "v07" /\ pc \in {"rolling", "sheetcorr", "sri", "sricol", "done"}
          => CorrMatrixOK(global_corr, df_all)
    /\ version = "v07" /\ pc \in {"sri", "sricol", "done"}
          => \A k \in DOMAIN selected_sheets :
                CorrMatrixOK(sheet_corr[k],
                             SelectSeq(df_all, LAMBDA r : r.Sheet = selected_sheets[k]))

\* both kinds of matrix computed, with an entry strictly between 0 and 1 in
\* absolute value, a NaN diagonal entry and a diagonal entry of 1
C6_Witness ==
    /\ version = "v07" /\ pc = "done"
    /\ \E a, b \in corr_cols :
          /\ global_corr[<<a, b>>] # CorrNaN
          /\ 0 < global_corr[<<a, b>>][2]
          /\ global_corr[<<a, b>>][2] < global_corr[<<a, b>>][3]
    /\ \E a \in corr_cols : global_corr[<<a, a>>] = CorrNaN
    /\ \E k \in DOMAIN sheet_corr : \E a \in corr_cols : sheet_corr[k][<<a, a>>] = CorrOne

\* the rows of the combined table that were read from the k-th selected sheet
OwnRows(k) ==
    LET first == Len(Flatten(SubSeq(xls, 1, k - 1)))
    IN  SelectSeq(df_all, LAMBDA r : first <= r.idx /\ r.idx < first + Len(xls[k]))

C9_WindowOneIdentity ==
    pc \in {"sheetcorr", "sri", "sricol", "done"} /\ window = 1 =>
        \A i \in DOMAIN df_all :
            \A k \in 1..2 :
                df_all[i][RollCols(version)[k] \o "_roll"] = df_all[i][RollCols(version)[k]]

\* window 1 on a column of v04 that holds a NaN and, two rows on, a value
C9_Witness ==
    /\ version = "v04" /\ pc = "done" /\ window = 1
    /\ \E i, j \in DOMAIN df_all :
          /\ i + 1 < j
          /\ IsNaN(df_all[i].RR_RH_1)
          /\ NotNaN(df_all[j].RR_RH_1_roll)

\* the values of a column of the combined table that are not null, in row order
KeptValues(c) == SelectSeq(Col(df_all, c), NotNaN)

\* C4: for max lag L the lag-correlation series has exactly 2L+1 entries, one for
\* each lag from -L to L in strictly increasing order, whatever the length of the
\* two series
C4_LagSeriesShape ==
    lag # <<>> =>
        LET L == lag.max_lag
        IN  /\ Len(xcorr.xcorr) = 2 * L + 1
            /\ Len(xcorr.lags) = 2 * L + 1
            /\ xcorr.lags[1] = -L
            /\ xcorr.lags[2 * L + 1] = L
            /\ \A i \in 1..(2 * L) : xcorr.lags[i + 1] = xcorr.lags[i] + 1

\* the largest lag on series of a single value
C4_Witness ==
    /\ lag # <<>>
    /\ lag.max_lag = MaxLag
    /\ Len(KeptValues(lag.ref_col)) = 1
    /\ Len(KeptValues(lag.compare_col)) >= 1
    /\ Len(xcorr.xcorr) = 2 * MaxLag + 1

\* C5: the entry at lag 0 is the Pearson correlation of the two columns after
\* dropping the nulls of each and cutting both to the shorter length, the i-th kept
\* value of the one paired with the i-th kept value of the other
C5_LagZeroIsPositional ==
    lag # <<>> =>
        LET k1 == KeptValues(lag.ref_col)
            k2 == KeptValues(lag.compare_col)
            n == Min(Len(k1), Len(k2))
        IN  xcorr.xcorr[lag.max_lag + 1] = Pearson(SubSeq(k1, 1, n), SubSeq(k2, 1, n))

\* equality and order of floats: NaN equals nothing and is below nothing
Agree(x, y) == NotNaN(x) /\ NotNaN(y) /\ x = y
Larger(x, y) == NotNaN(x) /\ NotNaN(y) /\ RLess(y, x)

\* the three terms of the SRI of a sheet
Terms(s) ==
    <<sheet_scores[s].Sensor1_per_unit, sheet_scores[s].Sensor2_per_unit,
      RAbs(sheet_scores[s].Delta)>>

\* C8: of two sheets that agree on two of the terms std(Sensor1_per_unit),
\* std(Sensor2_per_unit), |mean(Delta)|, the one whose third term is strictly larger
\* has the strictly lower SRI
C8_SRIDecreasing ==
    pc = "done" /\ version = "v07" =>
        \A s, t \in DOMAIN sheet_scores :
            \A k \in 1..3 :
                (/\ \A j \in 1..3 \ {k} : Agree(Terms(s)[j], Terms(t)[j])
                 /\ Larger(Terms(s)[k], Terms(t)[k]))
                => Larger(sheet_scores[t].SRI, sheet_scores[s].SRI)

\* two sheets with equal deviations whose mean deltas have opposite signs and
\* different sizes
C8_Witness ==
    /\ pc = "done" /\ version = "v07"
    /\ \E s, t \in DOMAIN sheet_scores :
          /\ Agree(Terms(s)[1], Terms(t)[1]) /\ Agree(Terms(s)[2], Terms(t)[2])
          /\ RLess(sheet_scores[s].Delta, R(0)) /\ RLess(R(0), sheet_scores[t].Delta)
          /\ Larger(Terms(s)[3], Terms(t)[3])
          /\ Larger(sheet_scores[t].SRI, sheet_scores[s].SRI)

\* the alignment is complete: the concat of the merged sheets in v01, the combined
\* table with its categorical timestamp in v05
Aligned ==
    \/ version = "v01" /\ pc = "done"
    \/ version = "v05" /\ pc = "rolling"

\* the rows of the combined table that come from row i of the k-th selected sheet
Copies(k, i) ==
    IF version = "v01"
    THEN {j \in DOMAIN df_all :
             df_all[j].Sheet = selected_sheets[k] /\ df_all[j].row = i}
    ELSE {j \in DOMAIN df_all :
             df_all[j].idx = Len(Flatten(SubSeq(xls, 1, k - 1))) + i - 1}

\* C10: after the alignment every spreadsheet row with a timestamp is in the
\* combined table exactly once; for two sheets of the rows 09:00, 09:05, 09:10 with
\* quantities 0, 5, 10 the table has 6 rows, 2 under each of 3 time labels
C10_NoPairLost ==
    Aligned =>
        /\ \A k \in DOMAIN xls : \A i \in DOMAIN xls[k] :
               xls[k][i].ts[1] # "null" => Cardinality(Copies(k, i)) = 1
        /\ xls = <<ScenarioSheet, ScenarioSheet>> =>
               LET labels == {df_all[j].Timestamp : j \in DOMAIN df_all}
               IN  /\ Len(df_all) = 6
                   /\ Cardinality(labels) = 3
                   /\ \A l \in labels :
                          Cardinality({j \in DOMAIN df_all : df_all[j].Timestamp = l}) = 2

----------------------------------------------------------------------------
(* Sheets of fewer or more than four columns *)

\* the sheets read so far that have fewer than four columns
Narrow == {k \in DOMAIN shape : shape[k] < 4}

\* the name of the k-th sheet read
SheetName(k) == selected_sheets[k]

\* C12: a sheet of fewer than four columns does not abort the run: no exception
\* ends a run that has read such a sheet
C12_NarrowSheetSkipped == Narrow # {} => pc # "error" /\ exception = <<>>

\* an exception mentions a name when the name is one of the parts of its message
Mentions(e, name) == \E i \in DOMAIN e.message : e.message[i] = name

\* C13: the error that ends the loading of a sheet of fewer than four columns
\* names that sheet, and the combined table holds no row of it
C13_ErrorNamesSheet ==
    Narrow # {} =>
        /\ pc = "error"
        /\ \A k \in Narrow : Mentions(exception, SheetName(k))
        /\ \A k \in Narrow : \A i \in DOMAIN df_all : df_all[i].Sheet # SheetName(k)

\* the data columns of a loaded frame: all but the sheet tags and the row marker
DataColumns(r) == DOMAIN r \ {"Sheet", "TimeKey", "row"}

\* the four names the loader gives to the columns
FourNames(v) ==
    IF Derived(v) THEN {"Timestamp", "Quantity", "Sensor1", "Sensor2"}
    ELSE {"Timestamp", "Quantity", "RR_RH_1", "RR_RH_2"}

\* C19: every loaded frame has exactly the four named data columns, whatever the
\* number of columns of its sheet, and so has the combined table
C19_FourColumns ==
    /\ \A k \in DOMAIN dfs : \A i \in DOMAIN dfs[k] :
            DataColumns(dfs[k][i]) = FourNames(version)
    /\ \A i \in DOMAIN df_all :
            DataColumns(df_all[i]) \ {"idx"} = FourNames(version)

----------------------------------------------------------------------------
(* Timestamp cells that hold a text *)

\* the rows read whose timestamp cell is a text that is no time
TextRows == {p \in DOMAIN RawRows : RawRows[p].ts[1] = "text"}

\* the combined table holds row p of the rows read, under the label l
Holds(p, l) ==
    \E j \in DOMAIN df_all : df_all[j].idx + 1 = p /\ df_all[j].Timestamp = l

\* C15: format_excel_time returns the text of a timestamp cell that is no time
\* as it is, and the combined table keeps the row under that label
C15_TextLabelKept ==
    version \in {"v04", "v05", "v07"} =>
        /\ \A k \in DOMAIN dfs : \A i \in DOMAIN dfs[k] :
                xls[k][i].ts[1] = "text" => dfs[k][i].Timestamp = xls[k][i].ts[2]
        /\ IsCombined => \A p \in TextRows : Holds(p, RawRows[p].ts[2])

\* a combined table of two sheets with a text-stamped row among ordinary rows
C15_Witness ==
    /\ version \in {"v04", "v05", "v07"} /\ IsCombined
    /\ Len(xls) = 2
    /\ \E j \in DOMAIN df_all :
          /\ RawOf(df_all[j]).ts = <<"text", "break">>
          /\ df_all[j].Timestamp = "break"
    /\ \E j \in DOMAIN df_all : RawOf(df_all[j]).ts[1] = "time"

----------------------------------------------------------------------------
(* Rolling mean and first difference across sheets *)

\* the rolling section has run
Rolled == pc \in {"sheetcorr", "sri", "sricol", "done"} /\ window > 0

\* C17: the rolling-mean column of the rows of a sheet is the rolling mean of
\* that sheet's rows alone
C17_RollingPerSheet ==
    Rolled =>
        \A n \in DOMAIN selected_sheets : \A k \in 1..2 :
            LET g == SheetRows(df_all, selected_sheets[n])
                c == RollCols(version)[k]
            IN  Col(g, c \o "_roll")
                    = RollingMean(Col(g, c), window, MinPeriods(version, window))

\* C18: the difference column of the rows of a sheet is the first difference of
\* that sheet's rows alone, NaN in the first row of the sheet
C18_DiffPerSheet ==
    version \in {"v04", "v05"} /\ Rolled =>
        \A n \in DOMAIN selected_sheets : \A k \in 1..2 :
            LET g == SheetRows(df_all, selected_sheets[n])
                c == RollCols(version)[k]
            IN  Col(g, c \o "_diff") = Diff(Col(g, c))

----------------------------------------------------------------------------
(* The scenario: two sheets with quantity 0, 5, 10, metric A 0, 10, 20 and
   metric B 0, 8, 18 *)

\* the global correlation matrix of the scenario has been computed
ScenarioCorr ==
    /\ version = "v07"
    /\ xls = <<ScenarioSheet, ScenarioSheet>>
    /\ pc = "rolling"

\* C11 as stated: every diagonal entry of the matrix of the scenario is 1
C11_DiagonalAllOne ==
    ScenarioCorr => \A c \in corr_cols : global_corr[<<c, c>>] = CorrOne

\* C11: in the matrix of the scenario the diagonal entry is 1 for Quantity,
\* Sensor1, Sensor2, Delta and Sensor2_per_unit, and NaN for Sensor1_per_unit,
\* which is 2 in every row where it is defined
C11_DiagonalOfScenario ==
    ScenarioCorr =>
        /\ \A c \in corr_cols \ {"Sensor1_per_unit"} : global_corr[<<c, c>>] = CorrOne
        /\ global_corr[<<"Sensor1_per_unit", "Sensor1_per_unit">>] = CorrNaN
        /\ \A i \in DOMAIN df_all :
                df_all[i].Sensor1_per_unit \in {NaN, R(2)}

\* the scenario, combined to six rows, with its matrix
C11_Witness ==
    /\ ScenarioCorr
    /\ Len(df_all) = 6
    /\ global_corr # <<>>
    /\ \E i \in DOMAIN df_all : df_all[i].Sensor1_per_unit = R(2)

----------------------------------------------------------------------------
(* Diagnostic metrics with a zero divisor *)

\* the metrics computed so far: the global ones and those of every sheet
Computed ==
    (IF global_metrics = <<>> THEN {} ELSE {global_metrics})
        \cup {diagnostics[k] : k \in DOMAIN diagnostics}

MetricNames == {"SEE1", "SEE2", "TransitionRate", "SPWD1", "SPWD2"}

\* the table a record of metrics was computed of
TableOf(m) == IF "Sheet" \in DOMAIN m THEN SheetRows(df_all, m.Sheet) ELSE df_all

----------------------------------------------------------------------------
(* Two runs on the same inputs *)

\* the second run has ended
RanTwice == run = 2 /\ pc \in {"done", "error"}

\* C20: the second of two runs on the same inputs shows what the first showed
\* (the combined table with its derived columns, the preview, the error if any),
\* and nothing a run shows depends on what an earlier run left behind
C20_SecondRunIdentical ==
    RanTwice =>
        /\ df_all = first_run.df_all
        /\ categories = first_run.categories
        /\ exception = first_run.exception
        /\ preview = first_run.preview

----------------------------------------------------------------------------
(* Gaps of the unified timeline *)

\* the rows of the aligned table of the k-th sheet under the j-th instant
Under(k, j) ==
    {i \in DOMAIN df_all :
        df_all[i].Sheet = selected_sheets[k] /\ df_all[i].Timestamp = unified_time[j]}

\* the rows the k-th sheet has for the j-th instant
Has(k, j) == {i \in DOMAIN dfs[k] : dfs[k][i].Timestamp = unified_time[j]}

IsGap(r) == IsNaN(r.Quantity) /\ IsNaN(r.RR_RH_1) /\ IsNaN(r.RR_RH_2)

\* C21: after the alignment of v01 every (sheet, instant) pair has a row; where
\* the sheet has no row for the instant it is one row of NaN, elsewhere the rows
\* are the sheet's own rows for that instant, value for value
C21_GapIsNaN ==
    version = "v01" /\ pc = "done" =>
        \A k \in DOMAIN selected_sheets : \A j \in DOMAIN unified_time :
            /\ Under(k, j) # {}
            /\ Has(k, j) = {} =>
                  Cardinality(Under(k, j)) = 1 /\ \A i \in Under(k, j) : IsGap(df_all[i])
            /\ Has(k, j) # {} =>
                  /\ Cardinality(Under(k, j)) = Cardinality(Has(k, j))
                  /\ \A i \in Under(k, j) : \E n \in Has(k, j) :
                        /\ df_all[i].row = dfs[k][n].row
                        /\ df_all[i].Quantity = dfs[k][n].Quantity
                        /\ df_all[i].RR_RH_1 = dfs[k][n].RR_RH_1
                        /\ df_all[i].RR_RH_2 = dfs[k][n].RR_RH_2

\* two aligned sheets, one of which lacks an instant that the other has
C21_Witness ==
    /\ version = "v01" /\ pc = "done" /\ Len(selected_sheets) = 2
    /\ \E j \in DOMAIN unified_time :
          /\ Has(1, j) = {} /\ Has(2, j) # {}
          /\ \E i \in Under(1, j) : IsGap(df_all[i])
          /\ \E i \in Under(2, j) : ~IsGap(df_all[i])

----------------------------------------------------------------------------
(* Encodings of the timestamp cells of one sheet *)

\* the branch of format_excel_time that converts a cell: the kind of the cell
Rule(t) == t[1]

\* C22: the labels of the rows of one loaded sheet all come from one branch of
\* the normalizer: no sheet has a label converted from a day-fraction next to a
\* label converted from a time of day, a date-time or a text
C22_OneRulePerSheet ==
    version \in {"v04", "v05", "v07"} =>
        \A k \in DOMAIN dfs : \A i, j \in DOMAIN dfs[k] :
            dfs[k][i].Timestamp # NaNLabel /\ dfs[k][j].Timestamp # NaNLabel
                => Rule(xls[k][i].ts) = Rule(xls[k][j].ts)

----------------------------------------------------------------------------
(* Labels of day-fractions *)

Digit(d) == ToString(d)

\* two digits, zero-padded
TwoDigits(n) == Digit(n \div 10) \o Digit(n % 10)

\* the day-fraction cells read so far with their labels: <<k, label>> for the
\* cell k / FracDen
Fractions ==
    UNION {{<<xls[n][i].ts[2], dfs[n][i].Timestamp>> :
                i \in {j \in DOMAIN xls[n] : xls[n][j].ts[1] = "num"}} :
           n \in DOMAIN dfs}

\* C23: the label of the day-fraction k / FracDen is HH:MM of m div 60 and
\* m mod 60, two digits each, for the integer m nearest to k / FracDen * 24 * 60
\* (the cells of the model are never halfway between two integers)
C23_LabelOfFraction ==
    \A f \in Fractions :
        \E m \in 0..(2 * 24 * 60) :
            /\ 2 * (m * FracDen - f[1] * 24 * 60) <= FracDen
            /\ 2 * (f[1] * 24 * 60 - m * FracDen) <= FracDen
            /\ f[2] = TwoDigits(m \div 60) \o ":" \o TwoDigits(m % 60)

\* a cell two thirds of a minute past 09:05, rounded up, and a cell one third of
\* a minute past 23:59 of the second day, rounded down
C23_Witness ==
    \/ \E f \in Fractions : f[1] = 1637 /\ f[2] = "09:06"
    \/ \E f \in Fractions : f[1] = 2 * FracDen - 2 /\ f[2] = "47:59"

\* the labels of the times of day
ClockLabels == {TwoDigits(h) \o ":" \o TwoDigits(m) : h \in 0..23, m \in 0..59}

\* C29: the label of a day-fraction t with 0 <= t < 1 is a time of day, HH:MM
\* with HH in 00..23 and MM in 00..59
C29_ValidTimeOfDay ==
    \A f \in Fractions : f[1] < FracDen => f[2] \in ClockLabels

----------------------------------------------------------------------------
(* Pairs of the lagged cross-correlation *)

\* the two series of v03 and v04: the kept values, cut to the shorter length
Cut(c) ==
    SubSeq(KeptValues(c), 1,
           Min(Len(KeptValues(lag.ref_col)), Len(KeptValues(lag.compare_col))))

\* C24: for series of length n the entry of lag k >= 0 is the correlation of
\* series1[k..n-1] with series2[0..n-1-k], the entry of lag k < 0 that of
\* series1[0..n-1-|k|] with series2[|k|..n-1]: n - |k| pairs, none when |k| >= n;
\* with fewer than two pairs the entry is NaN
C24_LagPairs ==
    version \in {"v03", "v04"} /\ lag # <<>> =>
        LET s1 == Cut(lag.ref_col)
            s2 == Cut(lag.compare_col)
            n == Len(s1)
        IN  \A p \in DOMAIN xcorr.xcorr :
                LET k == xcorr.lags[p]
                    a == Abs(k)
                    x == IF k >= 0 THEN SubSeq(s1, a + 1, n) ELSE SubSeq(s1, 1, n - a)
                    y == IF k >= 0 THEN SubSeq(s2, 1, n - a) ELSE SubSeq(s2, a + 1, n)
                IN  /\ Len(x) = (IF n > a THEN n - a ELSE 0)
                    /\ Len(y) = Len(x)
                    /\ xcorr.xcorr[p] = Pearson(x, y)
                    /\ n - a < 2 => xcorr.xcorr[p] = CorrNaN

\* three kept values on either side: two pairs at lag 1 with a correlation, one
\* pair at lag 2
C24_Witness ==
    /\ version = "v03" /\ lag # <<>> /\ lag.max_lag = 2
    /\ Len(Cut(lag.ref_col)) = 3
    /\ xcorr.xcorr[4] # CorrNaN
    /\ xcorr.xcorr[2] # CorrNaN
    /\ xcorr.xcorr[5] = CorrNaN

\* the rows of the combined table (by index label) that the kept values of a
\* column come from, in order
KeptRows(c) ==
    LET kept == DropNaSeries(ColSeries(df_all, c))
    IN  [i \in DOMAIN kept |-> kept[i].idx]

\* C30: in v03 and v04 the i-th value of the one series and the i-th value of the
\* other, which the lag-0 entry pairs, come from the same row of the combined
\* table
C30_PairsOfOneRow ==
    version \in {"v03", "v04"} /\ lag # <<>> =>
        \A i \in DOMAIN Cut(lag.ref_col) :
            KeptRows(lag.ref_col)[i] = KeptRows(lag.compare_col)[i]

----------------------------------------------------------------------------
(* Partial windows of the rolling mean *)

\* the rows of the window of row i that hold a value in column c
InWindow(c, i) ==
    {j \in DOMAIN df_all : i - window < j /\ j <= i /\ NotNaN(df_all[j][c])}

\* C25: in v05-v09 the rolling mean at a row is the mean of the values that the
\* rows of its window hold (the row and the window-1 rows before it, as far as
\* they exist), and NaN only when none of them holds a value
C25_PartialWindowMean ==
    version \in {"v05", "v07"} /\ Rolled =>
        \A i \in DOMAIN df_all : \A k \in 1..2 :
            LET c == RollCols(version)[k]
                roll == df_all[i][c \o "_roll"]
                S == InWindow(c, i)
            IN  /\ IsNaN(roll) <=> S = {}
                /\ S # {} => RMul(roll, R(Cardinality(S))) = SumOver(Col(df_all, c), S)

\* window 2 in v07: a first row with a mean, and a row whose window holds one
\* value next to a NaN
C25_Witness ==
    /\ version = "v07" /\ Rolled /\ window = 2
    /\ df_all # <<>>
    /\ NotNaN(df_all[1].Sensor1_per_unit_roll)
    /\ \E i \in DOMAIN df_all :
          /\ i > 1
          /\ IsNaN(df_all[i].Sensor1_per_unit)
          /\ NotNaN(df_all[i].Sensor1_per_unit_roll)

----------------------------------------------------------------------------
(* NaN after the fill step *)

\* C26: in v05-v09 no row of the combined table holds NaN in Quantity, Sensor1,
\* Sensor2 or Delta, and its per-unit columns hold NaN exactly when its Quantity
\* (after the fill) is 0
C26_NaNOnlyPerUnit ==
    Derived(version) /\ IsCombined =>
        \A i \in DOMAIN df_all :
            /\ \A c \in {"Quantity", "Sensor1", "Sensor2", "Delta"} : IsFinite(df_all[i][c])
            /\ IsNaN(df_all[i].Sensor1_per_unit) <=> df_all[i].Quantity = R(0)
            /\ IsNaN(df_all[i].Sensor2_per_unit) <=> df_all[i].Quantity = R(0)

\* a table with a row read without quantity and sensor 1, a row read without
\* sensor 2, and a row with per-unit values
C26_Witness ==
    /\ Derived(version) /\ IsCombined
    /\ \E i \in DOMAIN df_all : IsNaN(RawOf(df_all[i]).q) /\ IsNaN(RawOf(df_all[i]).a)
    /\ \E i \in DOMAIN df_all : IsNaN(RawOf(df_all[i]).b)
    /\ \E i \in DOMAIN df_all : IsFinite(df_all[i].Sensor1_per_unit)

----------------------------------------------------------------------------
(* Sheets without an SRI *)

\* the SRI column has been added
Scored == version = "v07" /\ pc = "done"

\* the rows of a sheet in the combined table whose Quantity is not 0
NonZeroRows(sheet) ==
    {i \in DOMAIN df_all : df_all[i].Sheet = sheet /\ df_all[i].Quantity # R(0)}

\* the SRI of a sheet is NaN
SRIIsNaN(sheet) == sheet \in DOMAIN sheet_scores /\ IsNaN(sheet_scores[sheet].SRI)

\* the SRI of a sheet is a finite number
SRIIsFinite(sheet) == sheet \in DOMAIN sheet_scores /\ IsFinite(sheet_scores[sheet].SRI)

\* C27 as stated: the SRI of every selected sheet is NaN when fewer than two of
\* its rows have a Quantity other than 0, and finite otherwise
C27_NaNIffFewRows ==
    Scored =>
        \A k \in DOMAIN selected_sheets :
            LET sheet == selected_sheets[k]
            IN  IF Cardinality(NonZeroRows(sheet)) < 2
                THEN SRIIsNaN(sheet) ELSE SRIIsFinite(sheet)

\* the rows of a sheet in the combined table
RowsOf(sheet) == {i \in DOMAIN df_all : df_all[i].Sheet = sheet}

\* C27: a selected sheet without a row in the combined table has no SRI at all;
\* the SRI of every other selected sheet is NaN when fewer than two of its rows
\* have a Quantity other than 0, and finite otherwise
C27_NaNIffFewRowsOfScored ==
    Scored =>
        \A k \in DOMAIN selected_sheets :
            LET sheet == selected_sheets[k]
            IN  IF RowsOf(sheet) = {} THEN sheet \notin DOMAIN sheet_scores
                ELSE IF Cardinality(NonZeroRows(sheet)) < 2
                THEN SRIIsNaN(sheet) ELSE SRIIsFinite(sheet)

\* two selected sheets: one without a row in the table, one with two rows of
\* Quantity other than 0; and one with a single such row next to a zero row
C27_Witness ==
    /\ Scored /\ Len(selected_sheets) = 2
    /\ \/ /\ RowsOf(selected_sheets[1]) = {}
          /\ xls[1] # <<>>
          /\ SRIIsFinite(selected_sheets[2])
       \/ /\ Cardinality(NonZeroRows(selected_sheets[1])) = 1
          /\ Cardinality(RowsOf(selected_sheets[1])) = 2
          /\ SRIIsNaN(selected_sheets[1])

----------------------------------------------------------------------------
(* The compound key of sheet and time label *)

\* C28: two rows of the combined table with the same TimeKey have the same sheet
\* and the same time label
C28_TimeKeyInjective ==
    version = "v07" /\ IsCombined =>
        \A i, j \in DOMAIN df_all :
            df_all[i].TimeKey = df_all[j].TimeKey
                => /\ df_all[i].Sheet = df_all[j].Sheet
                   /\ df_all[i].Timestamp = df_all[j].Timestamp

============================================================================
